---------------------------- MODULE Spec2Model ----------------------------
(***************************************************************************)
(* The route graph component of atlas.js (routerix): the tree-to-graph     *)
(* builder getNodesAndEdges, the dagre-backed layout                       *)
(* getLayoutedNodesAndEdges, and the React component RouteGraph with its   *)
(* control panel RouteGraphPanel.                                          *)
(*                                                                         *)
(* The repository holds two revisions of the component:                    *)
(*   "old"  src/src/app/components/RouteGraph.tsx                          *)
(*          (module-level dagreGraph, children filtered on type 'route',   *)
(*           direction panel rendered, no click handler)                   *)
(*   "new"  src/unnamed/part_001                                           *)
(*          (dagreGraph created per layout call, click handler, the        *)
(*           direction panel defined but not rendered)                     *)
(* The variable `variant` says which revision a behaviour runs.            *)
(***************************************************************************)
EXTENDS Integers, Sequences, FiniteSets, TLC

(***************************************************************************)
(* Bounds of the model.                                                    *)
(***************************************************************************)
\* number of routes of the route tree handed to the component
MaxRoutes == 4
\* number of setTimeout callbacks that may be pending at once
MaxTimers == 2
\* colours getRandomColor is let to choose from in a direct call of
\* getNodesAndEdges on a tree of up to MaxRoutes routes
MaxColors == 2
\* colours getRandomColor is let to choose from in a direct call of
\* getNodesAndEdges on a bushy tree
MaxBushColors == 1
\* colours getRandomColor is let to choose from in the builds the component
\* makes (mount, memo, onLayout)
MaxMountColors == 1
\* routes of a type other than 'route' in a tree the component is mounted
\* with before it is driven by its events
MaxMountOthers == 0
\* routes of the largest bushy tree built
MaxNodes == 112
\* direct calls of getNodesAndEdges in a row
MaxBuilds == 2
\* changes the user makes to the displayed nodes and edges by hand
MaxEdits == 1
\* changes in the array of one call of onNodesChange or onEdgesChange
MaxChanges == 1

(***************************************************************************)
(* Program constants.                                                      *)
(***************************************************************************)
NODE_WIDTH == 172
NODE_HEIGHT == 36
\* nodesep / ranksep handed to dagre by the old and the new revision
NodeSepOld == 25
RankSepOld == 50
NodeSepNew == 50
RankSepNew == 250

VARIABLES
    variant,        \* "old" | "new": the revision of the component
    routes,         \* route id -> sequence of child route ids (Object.values order)
    rtype,          \* route id -> 'type' field of the route (read by "old" only)
    rand,           \* the draws of the latest direct call of getNodesAndEdges:
                    \* route id -> the colour getRandomColor() returned for
                    \* the node of that route
    lastBuild,      \* observation of the latest direct call getNodesAndEdges(r)
    route,          \* id of the active route (prop / useRoute())
    memoDeps,       \* dependency [route.id] of the last useMemo computation
    layouted,       \* value held by useMemo
    nodes,          \* useNodesState: the nodes handed to <ReactFlow>
    edges,          \* useEdgesState: the edges handed to <ReactFlow>
    onLayoutRoute,  \* the route captured by the onLayout closure
    clickRoute,     \* the route captured by the handleClickNode closure
    dagreGraph,     \* the dagre graph: module-level in "old"; in "new" the one
                    \* the latest layout call created
    store,          \* React Flow store: nodeInternals and the viewport centre
    timers,         \* pending setTimeout(..., 0) callbacks, oldest first
    lastLayout,     \* observation of the latest getLayoutedNodesAndEdges call
    lastEvent,      \* observation of the latest handler that ran
    edits,          \* the number of changes the user has made by hand to the
                    \* displayed nodes and edges (selections, removals, drags,
                    \* connections); Backspace counts with the selection it
                    \* acts on
    pendingEffect   \* whether the effect that hands the nodes of the latest
                    \* render to the React Flow store has yet to run

vars == <<variant, routes, rtype, rand, lastBuild, route, memoDeps, layouted, nodes, edges,
          onLayoutRoute, clickRoute, dagreGraph, store, timers, lastLayout,
          lastEvent, edits, pendingEffect>>

RouteIds == 1..MaxRoutes

(***************************************************************************)
(* String(n) and Number(s): decimal conversion.  A string is a sequence of *)
(* one-character strings, so that template literals are concatenations.   *)
(***************************************************************************)
DigitChars == <<"0", "1", "2", "3", "4", "5", "6", "7", "8", "9">>

RECURSIVE String(_)
String(n) ==
    IF n < 10 THEN <<DigitChars[n + 1]>>
    ELSE String(n \div 10) \o <<DigitChars[(n % 10) + 1]>>

DigitValue(c) ==
    CASE c = "0" -> 0 [] c = "1" -> 1 [] c = "2" -> 2 [] c = "3" -> 3 [] c = "4" -> 4
      [] c = "5" -> 5 [] c = "6" -> 6 [] c = "7" -> 7 [] c = "8" -> 8 [] c = "9" -> 9

RECURSIVE Number(_)
Number(s) ==
    IF Len(s) = 0 THEN 0
    ELSE 10 * Number(SubSeq(s, 1, Len(s) - 1)) + DigitValue(s[Len(s)])

(***************************************************************************)
(* getNodesAndEdges: pre-order traversal pushing onto the shared arrays.   *)
(* acc = [nodes, edges] is the pair of arrays as they stand.               *)
(***************************************************************************)
Undefined == "undefined"

\* a plausible slip: the root kind given whatever the parent
NodeTypeOfRoot(hasParent) == IF variant = "new" THEN "rootRoute" ELSE "input"

\* the node types rendered as root: 'rootRoute' ("new"), 'input' ("old")
IsRootNode(node) == node.type \in {"rootRoute", "input"}

\* the `type` of a created node: root kind when there is no parent
NodeType(hasParent) ==
    IF variant = "new"
    THEN (IF ~hasParent THEN "rootRoute" ELSE "route")
    ELSE (IF ~hasParent THEN "input" ELSE Undefined)

\* getRandomColor's palette
Palette == <<"#1abc9c", "#2ecc71", "#3498db", "#9b59b6", "#f1c40f", "#e67e22", "#e74c3c">>

\* the colours the draws are taken from: the first n of the palette
FirstColors(n) == {Palette[i] : i \in 1..n}

Colors == FirstColors(MaxColors)

BushColors == FirstColors(MaxBushColors)

MountColors == FirstColors(MaxMountColors)

\* the optional `parent` argument: <<>> when absent, else <<[id, color]>>
NoParent == <<>>

\* "old": const color = !parent ? 'blue' : level > 1 ? parent.color :
\* getRandomColor().  "new" computes no colour and its nodes carry no style.
NodeColor(r, parent, level, draws) ==
    IF variant = "new" THEN Undefined
    ELSE IF parent = NoParent THEN "blue"
    ELSE IF level > 1 THEN parent[1].color
    ELSE draws[r]

\* the `parent` argument passed down: {id: nodeId, color} in "old",
\* {id: nodeId, color: ''} in "new"
AsParent(nodeId, color) ==
    << [id |-> nodeId, color |-> IF variant = "new" THEN "" ELSE color] >>

\* the node pushed for route r when the nodes array is `ns`
NewNode(r, ns, parent, level, draws) ==
    [ id             |-> String(Len(ns) + 1),
      type           |-> NodeType(parent # NoParent),
      data           |-> r,
      borderColor    |-> NodeColor(r, parent, level, draws),
      position       |-> [x |-> 0, y |-> 0],
      targetPosition |-> Undefined,
      sourcePosition |-> Undefined,
      selected       |-> FALSE ]

\* a plausible slip: the target id taken without the + 1
NewEdgeToLast(from, ns) ==
    LET to == String(Len(ns))
    IN [ id |-> <<"e">> \o from \o to, source |-> from, target |-> to ]

\* the edge pushed from node `from` when the nodes array is `ns`
NewEdge(from, ns) ==
    LET to == String(Len(ns) + 1)
    IN [ id |-> <<"e">> \o from \o to, source |-> from, target |-> to ]

\* Object.values(route.routes) as a set
ChildrenOf(r) == {routes[r][k] : k \in 1..Len(routes[r])}

\* "old" returns early from the forEach callback for a child that is no route
SkipsChild(child) == variant = "old" /\ rtype[child] # "route"

\* Always true.  Testing it makes TLC evaluate the two arrays at each step
\* of the traversal instead of keeping every pending push nested in the
\* next, which a tree of a hundred routes would not survive.
Evaluated(acc) == Len(acc.nodes) >= 0 /\ Len(acc.edges) >= 0

RECURSIVE Visit(_, _, _, _, _), ForEachChild(_, _, _, _, _, _)

\* a plausible slip: the edge pushed before the child's type is tested
ForEachChildEdgeFirst(children, i, self, level, draws, acc) ==
    IF i > Len(children) \/ ~Evaluated(acc) THEN acc
    ELSE LET withEdge == [acc EXCEPT !.edges = Append(acc.edges, NewEdge(self[1].id, acc.nodes))]
         IN IF SkipsChild(children[i])
            THEN ForEachChild(children, i + 1, self, level, draws, withEdge)
            ELSE ForEachChild(children, i + 1, self, level, draws,
                              Visit(children[i], withEdge, self, level + 1, draws))

\* one call getNodesAndEdges(route, nodes, edges, parent, level); `draws`
\* gives what getRandomColor() returns during the top-level call
Visit(r, acc, parent, level, draws) ==
    LET nodeId == String(Len(acc.nodes) + 1)
        node   == NewNode(r, acc.nodes, parent, level, draws)
        pushed == [acc EXCEPT !.nodes = Append(acc.nodes, node)]
    IN ForEachChild(routes[r], 1, AsParent(nodeId, node.borderColor), level, draws, pushed)

\* the forEach over the children, from the i-th on; `self` is the parent
\* argument the recursive calls get, `level` the level of the visiting call
ForEachChild(children, i, self, level, draws, acc) ==
    IF i > Len(children) \/ ~Evaluated(acc) THEN acc
    ELSE IF SkipsChild(children[i]) THEN ForEachChild(children, i + 1, self, level, draws, acc)
    ELSE LET withEdge == [acc EXCEPT !.edges = Append(acc.edges, NewEdge(self[1].id, acc.nodes))]
         IN ForEachChild(children, i + 1, self, level, draws,
                         Visit(children[i], withEdge, self, level + 1, draws))

\* a plausible slip: the arrays of the previous call used again, as with a
\* default value created once
ListsOfLastCall == [nodes |-> lastBuild.nodes, edges |-> lastBuild.edges]

\* the default arguments nodes = [] and edges = [], evaluated at each call
FreshLists == [nodes |-> <<>>, edges |-> <<>>]

\* the top-level call getNodesAndEdges(route): no parent, level 0
getNodesAndEdgesDrawing(r, draws) == Visit(r, FreshLists, NoParent, 0, draws)

\* the children of r a build visits: the nodes at level 1 of a call for r
VisitedChildren(r) == {c \in ChildrenOf(r) : ~SkipsChild(c)}

\* what getRandomColor() may return during a call for r: "old" draws once
\* for each node at level 1, each draw on its own, any of `colors`.  "new"
\* never calls getRandomColor.
BuildDraws(r, colors) ==
    IF variant = "new" THEN {rand}
    ELSE {[q \in DOMAIN routes |-> IF q \in VisitedChildren(r) THEN f[q] ELSE Palette[1]]
             : f \in [VisitedChildren(r) -> colors]}

\* the call under the draws held in `rand`
getNodesAndEdges(r) == getNodesAndEdgesDrawing(r, rand)


(***************************************************************************)
(* The dagre working graph (graphlib.Graph): a node set, a set of directed *)
(* edges <<v, w>> (not a multigraph: setting an edge twice keeps one), the *)
(* graph label (rankdir) and, per node, the label dagre.layout leaves on   *)
(* it.  `rank` in a label is the rank dagre's ranker gave the node in that *)
(* layout; x and y are the node's centre.                                  *)
(***************************************************************************)
EmptyGraph ==
    [ nodes |-> {}, edges |-> {}, label |-> [v \in {} |-> 0], rankdir |-> Undefined ]

\* the graph a layout call works on, g0 being the graph the previous call
\* left: "new" makes one per call, "old" uses the module-level graph
WorkingGraph(g0) == IF variant = "new" THEN EmptyGraph ELSE g0

NodeSep == IF variant = "new" THEN NodeSepNew ELSE NodeSepOld
RankSep == IF variant = "new" THEN RankSepNew ELSE RankSepOld

setGraph(g, direction) == [g EXCEPT !.rankdir = direction]

setNodes(g, ns) == [g EXCEPT !.nodes = g.nodes \cup {ns[i].id : i \in 1..Len(ns)}]

setEdges(g, es) ==
    [g EXCEPT !.edges = g.edges \cup {<<es[i].source, es[i].target>> : i \in 1..Len(es)}]

(***************************************************************************)
(* dagre.layout.  Ranking (ranker 'network-simplex'): a ranking with every *)
(* edge at least one rank long and the least total edge length, shifted so *)
(* that the lowest rank is 0 (normalizeRanks); where several rankings are  *)
(* optimal the model allows each.  Every edge of the graphs built here     *)
(* goes from a lower to a higher node number, so the nodes in ascending    *)
(* number are in topological order; rankings are sequences over the        *)
(* positions in that order and edges pairs of positions.                   *)
(***************************************************************************)
\* the node ids in ascending number
RECURSIVE SortKeyed(_)
SortKeyed(K) ==
    IF K = {} THEN <<>>
    ELSE LET m == CHOOSE k \in K : \A l \in K : k[1] <= l[1]
         IN <<m[2]>> \o SortKeyed(K \ {m})

SortIds(S) == SortKeyed({<<Number(v), v>> : v \in S})

MaxOf(S) == CHOOSE x \in S : \A y \in S : y <= x
MinOf(S) == CHOOSE x \in S : \A y \in S : x <= y

\* the position of node v in the sorted sequence ids
IndexOf(ids, v) == CHOOSE i \in 1..Len(ids) : ids[i] = v

IndexEdges(g, ids) == {<<IndexOf(ids, e[1]), IndexOf(ids, e[2])>> : e \in g.edges}

\* the predecessors of position i
Before(E, i) == {e[1] : e \in {f \in E : f[2] = i /\ f[1] < i}}

RECURSIVE SumOf(_, _)
SumOf(r, J) ==
    IF J = {} THEN 0
    ELSE LET j == CHOOSE k \in J : TRUE IN r[j] + SumOf(r, J \ {j})

\* the least rank a node with predecessors B may take under ranking r
Lowest(r, B) == IF B = {} THEN 0 ELSE MaxOf({r[j] + 1 : j \in B})

\* ranking f extended by the next node at rank x, B its predecessors
Placed(f, B, x) ==
    [ rank |-> Append(f.rank, x),
      length |-> f.length + Cardinality(B) * x - SumOf(f.rank, B) ]

\* the ranking that puts every node at its least rank: its length bounds
\* the length of an optimal ranking from above
RECURSIVE LongestPath(_, _)
LongestPath(E, i) ==
    IF i = 0 THEN [rank |-> <<>>, length |-> 0]
    ELSE LET f == LongestPath(E, i - 1)
         IN Placed(f, Before(E, i), Lowest(f.rank, Before(E, i)))

\* the rankings of the first i of n nodes, the first node at rank 0, that
\* can still be completed within `budget`: each edge to a later node adds
\* at least 1
RECURSIVE FeasibleRanks(_, _, _, _)
FeasibleRanks(E, n, i, budget) ==
    IF i = 0 THEN {[rank |-> <<>>, length |-> 0]}
    ELSE LET B == Before(E, i)
             later == Cardinality({e \in E : e[2] > i})
             ranks(f) ==
                 IF B = {} THEN (IF i = 1 THEN {0} ELSE (1 - n)..(n - 1))
                 ELSE Lowest(f.rank, B)..
                        ((budget - later - f.length + SumOf(f.rank, B)) \div Cardinality(B))
         IN UNION { {Placed(f, B, x) : x \in ranks(f)}
                    : f \in FeasibleRanks(E, n, i - 1, budget) }

\* normalizeRanks: the lowest rank becomes 0
Normalized(r) ==
    IF Len(r) = 0 THEN r
    ELSE LET low == MinOf({r[i] : i \in 1..Len(r)}) IN [i \in 1..Len(r) |-> r[i] - low]

\* the optimal rankings, each a sequence over the positions of ids
OptimalRanks(g, ids) ==
    LET E == IndexEdges(g, ids)
        n == Len(ids)
        F == FeasibleRanks(E, n, n, LongestPath(E, n).length)
        least == MinOf({f.length : f \in F})
    IN {Normalized(f.rank) : f \in {h \in F : h.length = least}}

\* rankdir.toLowerCase() is "lr" or "rl": width and height swap roles
SwapsAxes(dir) == dir \in {"LR", "RL"}
\* rankdir.toLowerCase() is "bt" or "rl": the rank axis is reversed
ReversesRank(dir) == dir \in {"BT", "RL"}

\* centre of a node along the rank axis: ranks are (size + ranksep) apart
\* and the graph is translated so that the first rank starts at 0
RankCentre(rank, maxRank, dir) ==
    LET size == IF SwapsAxes(dir) THEN NODE_WIDTH ELSE NODE_HEIGHT
        k == IF ReversesRank(dir) THEN maxRank - rank ELSE rank
    IN k * (size + RankSep) + size \div 2

\* order of the i-th node within its rank: the nodes of a rank in
\* ascending number
OrderInRank(r, i) == Cardinality({j \in 1..(i - 1) : r[j] = r[i]})

\* centre of a node across the rank axis.  dagre's coordinate assignment
\* is abstracted to a left-packed row: slot `order` of (size + nodesep).
CrossCentre(order, dir) ==
    LET size == IF SwapsAxes(dir) THEN NODE_HEIGHT ELSE NODE_WIDTH
    IN order * (size + NodeSep) + size \div 2

NodeLabel(r, i, maxRank, dir) ==
    LET main == RankCentre(r[i], maxRank, dir)
        cross == CrossCentre(OrderInRank(r, i), dir)
    IN [ width |-> NODE_WIDTH, height |-> NODE_HEIGHT, rank |-> r[i],
         x |-> IF SwapsAxes(dir) THEN main ELSE cross,
         y |-> IF SwapsAxes(dir) THEN cross ELSE main ]

\* the labels of ranking r, per node
Labels(g, ids, r) ==
    LET maxRank == MaxOf({r[i] : i \in 1..Len(r)})
        byIndex == [i \in 1..Len(ids) |-> NodeLabel(r, i, maxRank, g.rankdir)]
    IN [v \in g.nodes |-> byIndex[IndexOf(ids, v)]]

\* the graphs dagre.layout(g) may leave, one per optimal ranking
dagreLayout(g) ==
    LET ids == SortIds(g.nodes)
    IN {[g EXCEPT !.label = Labels(g, ids, r)] : r \in OptimalRanks(g, ids)}

(***************************************************************************)
(* getLayoutedNodesAndEdges(nodes, edges, direction) on the module-level   *)
(* graph g0: the set of outcomes [nodes, edges, graph], graph being the    *)
(* working graph as the call leaves it.                                    *)
(***************************************************************************)
TargetAnchor(direction) == IF direction = "LR" THEN "left" ELSE "top"
SourceAnchor(direction) == IF direction = "LR" THEN "right" ELSE "bottom"

PlaceNode(node, nodeWithPosition, direction) ==
    [node EXCEPT !.targetPosition = TargetAnchor(direction),
                 !.sourcePosition = SourceAnchor(direction),
                 !.position = [ x |-> nodeWithPosition.x - NODE_WIDTH \div 2,
                                y |-> nodeWithPosition.y - NODE_HEIGHT \div 2 ]]

getLayoutedNodesAndEdges(ns, es, direction, g0) ==
    LET g1 == setEdges(setNodes(setGraph(WorkingGraph(g0), direction), ns), es)
    IN { [ nodes |-> [i \in 1..Len(ns) |-> PlaceNode(ns[i], g.label[ns[i].id], direction)],
           edges |-> es,
           graph |-> g ] : g \in dagreLayout(g1) }


(***************************************************************************)
(* The component.                                                          *)
(***************************************************************************)
GraphDirection == {"TB", "BT", "LR", "RL"}

\* the directions the panel's two buttons request
PanelDirections == {"TB", "LR"}

\* the direction of the memoized layout: 'TB' in "old", 'LR' in "new"
DefaultDirection == IF variant = "new" THEN "LR" ELSE "TB"

IdsOf(ns) == {ns[i].id : i \in 1..Len(ns)}
LinksOf(es) == {<<es[i].source, es[i].target>> : i \in 1..Len(es)}

\* what a getLayoutedNodesAndEdges call was given, the graph it started
\* from, and what it did to the nodes it was given
LayoutObservation(ns, es, direction, g0, out) ==
    [ ids       |-> IdsOf(ns),
      links     |-> LinksOf(es),
      direction |-> direction,
      leftover  |-> [nodes |-> WorkingGraph(g0).nodes, edges |-> WorkingGraph(g0).edges],
      anchors   |-> {<<out.nodes[i].targetPosition, out.nodes[i].sourcePosition>>
                       : i \in 1..Len(out.nodes)},
      modified  |-> out.nodes # ns \/ out.graph # WorkingGraph(g0),
      result    |-> "returned" ]

\* the body of useMemo and of onLayout up to the layout: build, with fresh
\* draws, then lay out
BuildAndLayout(r, direction, g0) ==
    UNION { LET built == getNodesAndEdgesDrawing(r, draws)
            IN { [ nodes |-> out.nodes, edges |-> out.edges, graph |-> out.graph,
                   seen |-> LayoutObservation(built.nodes, built.edges, direction, g0, out) ]
                 : out \in getLayoutedNodesAndEdges(built.nodes, built.edges, direction, g0) }
          : draws \in BuildDraws(r, MountColors) }

\* a plausible slip: no dependency list, the memo recomputes on every render
DepsAlwaysChanged(r) == TRUE

\* useMemo(..., [route.id]): recompute when the dependency differs
DepsChanged(r) == r # memoDeps

\* useCallback(onLayout, deps) on a render for route r: "new" lists
\* route.id among the dependencies, "old" only nodes and edges
OnLayoutDepsChanged(r, stateChanged) ==
    IF variant = "new" THEN stateChanged \/ r # onLayoutRoute ELSE stateChanged

\* what the latest handler did: the setRoute calls it made, and whether the
\* render it caused recomputed the memoized layout
Event(calls) == [calls |-> calls, recomputed |-> FALSE]

(***************************************************************************)
(* One render of RouteGraph for active route r.  stateChanged says whether *)
(* the nodes and edges state are new arrays since the previous render; g0  *)
(* and seen0 are the dagre graph and the layout observation as the handler *)
(* that caused the render left them.  The render leaves the nodes and      *)
(* edges state alone: useNodesState(layouted.nodes) takes its argument as  *)
(* the initial state only.                                                 *)
(***************************************************************************)
Render(r, stateChanged, g0, seen0, event) ==
    /\ route' = r
    /\ IF DepsChanged(r)
       THEN \E m \in BuildAndLayout(r, DefaultDirection, g0) :
               /\ layouted' = [nodes |-> m.nodes, edges |-> m.edges]
               /\ dagreGraph' = m.graph
               /\ lastLayout' = m.seen
       ELSE /\ layouted' = layouted
            /\ dagreGraph' = g0
            /\ lastLayout' = seen0
    /\ memoDeps' = IF DepsChanged(r) THEN r ELSE memoDeps
    /\ onLayoutRoute' = IF OnLayoutDepsChanged(r, stateChanged) THEN r ELSE onLayoutRoute
    /\ clickRoute' = IF variant = "new" THEN r ELSE clickRoute
    /\ lastEvent' = [event EXCEPT !.recomputed = DepsChanged(r)]

(***************************************************************************)
(* The React Flow store and the refocus.  A pending setTimeout callback    *)
(* carries `committed`: whether the nodes set by the direction request     *)
(* that scheduled it have reached the store.  `focus` records, for the     *)
(* latest focusNode run, whether it ran at all, what it carried and the    *)
(* id of the node it centred on;                                           *)
(* `center` holds the arguments of the latest setCenter call, if any.      *)
(***************************************************************************)
\* a plausible slip: the last node of the store taken for the root
LastInternal(st) ==
    IF st.nodeInternals = <<>> THEN <<>>
    ELSE <<st.nodeInternals[Len(st.nodeInternals)]>>

\* [...nodeInternals.values()][0]: the first node of the store as it is
\* now, in a list of one; the empty list stands for undefined
FirstInternal(st) ==
    IF st.nodeInternals = <<>> THEN <<>> ELSE <<Head(st.nodeInternals)>>

\* focusNode reads rootNode.position: on an empty store rootNode is
\* undefined (the "!" is a type assertion only), the read throws a
\* TypeError and setCenter is not called
focusNode(st, callback) ==
    LET rootNode == FirstInternal(st)
    IN IF rootNode = <<>>
       THEN [st EXCEPT !.focus = [ran |-> TRUE, afterCommit |-> callback.committed,
                                   node |-> <<>>, threw |-> TRUE]]
       ELSE [st EXCEPT !.center = << [ x |-> rootNode[1].position.x,
                                       y |-> rootNode[1].position.y,
                                       zoom |-> "0.5", duration |-> 1000 ] >>,
                       !.focus = [ran |-> TRUE, afterCommit |-> callback.committed,
                                   node |-> rootNode[1].id, threw |-> FALSE]]

\* a plausible slip: focusNode() called in the handler instead of queued
RefocusInline(st, tm) ==
    [store |-> focusNode(st, [committed |-> FALSE]), timers |-> tm]

\* setTimeout(() => focusNode(), 0): the callback is queued, nothing runs now
ScheduleRefocus(st, tm) ==
    [store |-> st, timers |-> Append(tm, [committed |-> FALSE])]

\* the store takes the nodes prop of <ReactFlow>: the nodes state of the
\* latest render
CommitNodes(st, ns) == [st EXCEPT !.nodeInternals = ns]

\* once the store has the nodes, the commit has happened for every callback
\* pending by then
AfterCommit(tm) == [i \in 1..Len(tm) |-> [committed |-> TRUE]]

\* React runs the pending effects of a render before it handles the next
\* event or renders again
EffectsFlushed == ~pendingEffect

\* The order of the effect that hands the nodes to the store and of a timer
\* task queued by the handler that set them.  React decides it, by the kind
\* of root the application creates: a root made with createRoot runs the
\* effects of a click's render before the click's task ends, hence before
\* any timer.  The sources at hand neither create the root nor name the
\* React version, so the order is taken as the specification states it:
\* rebuild, then commit, then refocus.
TimerAfterCommit == EffectsFlushed

(***************************************************************************)
(* Route trees: every parent vector p with p[k] < k over the routes        *)
(* 1..MaxRoutes, the children of a route in ascending id.                  *)
(***************************************************************************)
RECURSIVE AscSeq(_)
AscSeq(S) ==
    IF S = {} THEN <<>>
    ELSE LET m == CHOOSE x \in S : \A y \in S : x <= y
         IN <<m>> \o AscSeq(S \ {m})

ParentVectors == {p \in [2..MaxRoutes -> RouteIds] : \A k \in 2..MaxRoutes : p[k] < k}

\* every route of type 'route'
AllRoutes == {[r \in RouteIds |-> "route"]}

\* routes of type 'route' and up to n of another type, the root never (the
\* type is read by "old" only)
TypesWith(n) ==
    IF variant = "new" THEN AllRoutes
    ELSE {t \in [RouteIds -> {"route", "other"}] :
            t[1] = "route" /\ Cardinality({r \in RouteIds : t[r] = "other"}) <= n}

MixedTypes == TypesWith(MaxRoutes)

\* the value of `rand` while no direct call has drawn anything
OneDraw == [r \in RouteIds |-> Palette[1]]

\* no direct call of getNodesAndEdges has been made
NoBuild == [root |-> 0, call |-> 0, nodes |-> <<>>, edges |-> <<>>, pushedBy |-> <<>>]

\* the state after the component has mounted with the root route
Mounted(types) ==
    /\ \E p \in ParentVectors :
          routes = [r \in RouteIds |-> AscSeq({k \in 2..MaxRoutes : p[k] = r})]
    /\ rtype \in types
    /\ rand = OneDraw
    /\ lastBuild = NoBuild
    /\ edits = 0
    /\ pendingEffect = FALSE
    /\ route = 1
    /\ memoDeps = 1
    /\ onLayoutRoute = 1
    /\ clickRoute = IF variant = "new" THEN 1 ELSE 0
    /\ timers = <<>>
    /\ lastEvent = [calls |-> <<>>, recomputed |-> TRUE]
    /\ \E m \in BuildAndLayout(1, DefaultDirection, EmptyGraph) :
          /\ layouted = [nodes |-> m.nodes, edges |-> m.edges]
          /\ nodes = m.nodes
          /\ edges = m.edges
          /\ dagreGraph = m.graph
          /\ lastLayout = m.seen
          /\ store = [ nodeInternals |-> m.nodes, center |-> <<>>,
                       focus |-> [ran |-> FALSE, afterCommit |-> FALSE, node |-> <<>>,
                                   threw |-> FALSE] ]

Init ==
    /\ variant \in {"old", "new"}
    /\ Mounted(TypesWith(MaxMountOthers))

\* the route source makes r the active route; RouteGraph renders
SetRoute(r) ==
    /\ EffectsFlushed
    /\ r # route
    /\ Render(r, FALSE, dagreGraph, lastLayout, Event(<<>>))
    /\ UNCHANGED <<pendingEffect, edits, variant, routes, rtype, rand, lastBuild, nodes, edges, store, timers>>

\* RouteGraph renders again with the same active route
Rerender ==
    /\ EffectsFlushed
    /\ Render(route, FALSE, dagreGraph, lastLayout, Event(<<>>))
    /\ UNCHANGED <<pendingEffect, edits, variant, routes, rtype, rand, lastBuild, nodes, edges, store, timers>>

\* a plausible slip: useCallback without route.id among its dependencies,
\* so that the route of the mount stays the one compared with
IsCurrentAtMount(node) == node.data = 1

\* isCurrent: node.data.id === route.id, route as the closure captured it
IsCurrent(node) == node.data = clickRoute

\* onNodeClick on the i-th displayed node ("new" only: "old" has no handler).
\* setRoute(node.data, true) makes the clicked route the active one.
handleClickNode(i) ==
    /\ variant = "new"
    /\ EffectsFlushed
    /\ LET node == nodes[i]
       IN IF IsCurrent(node)
          THEN /\ lastEvent' = Event(<<>>)
               /\ UNCHANGED <<route, memoDeps, layouted, onLayoutRoute, clickRoute,
                              dagreGraph, lastLayout>>
          ELSE Render(node.data, FALSE, dagreGraph, lastLayout, Event(<<node.data>>))
    /\ UNCHANGED <<pendingEffect, edits, variant, routes, rtype, rand, lastBuild, nodes, edges, store, timers>>

\* a click on a direction button of RouteGraphPanel ("old" only: "new" does
\* not render the panel): onLayout(dir) sets the nodes and edges state,
\* setTimeout(focusNode) queues the refocus, and React renders for the
\* state set.  The nodes are new, unselected objects.  The handler does not
\* touch the store: the nodes reach it in StoreUpdater.
handleDescription(dir) ==
    /\ variant = "old"
    /\ EffectsFlushed
    /\ Len(timers) < MaxTimers
    /\ \E m \in BuildAndLayout(onLayoutRoute, dir, dagreGraph) :
          LET sched == ScheduleRefocus(store, timers)
          IN /\ nodes' = m.nodes
             /\ edges' = m.edges
             /\ timers' = sched.timers
             /\ store' = sched.store
             /\ pendingEffect' = TRUE
             /\ Render(route, TRUE, m.graph, m.seen, Event(<<>>))
    /\ UNCHANGED <<edits, variant, routes, rtype, rand, lastBuild>>

\* connectionExists: an edge with that source and target (and no handle
\* ids, as none is given to a Handle here) is among the edges
ConnectionExists(source, target, eds) ==
    \E i \in 1..Len(eds) : eds[i].source = source /\ eds[i].target = target

\* React Flow's addEdge for a connection without id: the edges as they are
\* when the connection exists, else the edges with a new one at the end
addEdge(source, target, eds) ==
    IF ConnectionExists(source, target, eds) THEN eds
    ELSE Append(eds, [ id     |-> <<"reactflow__edge-">> \o source \o <<"-">> \o target,
                       source |-> source,
                       target |-> target ])

\* the nodes a connection can end at: those rendered with a target handle
HasTargetHandle(node) == ~IsRootNode(node)

\* the user drags a connection from the source handle of the i-th displayed
\* node to the target handle of the j-th: onConnect(params) sets the edges
\* state to addEdge(params, eds), and React renders if the state changed
onConnect(i, j) ==
    /\ EffectsFlushed
    /\ HasTargetHandle(nodes[j])
    /\ edits < MaxEdits
    /\ edges' = addEdge(nodes[i].id, nodes[j].id, edges)
    /\ IF edges' = edges
       THEN /\ lastEvent' = Event(<<>>)
            /\ UNCHANGED <<edits, route, memoDeps, layouted, onLayoutRoute, clickRoute,
                           dagreGraph, lastLayout>>
       ELSE /\ edits' = edits + 1
            /\ Render(route, TRUE, dagreGraph, lastLayout, Event(<<>>))
    /\ UNCHANGED <<pendingEffect, variant, routes, rtype, rand, lastBuild, nodes, store, timers>>

\* the place a node is dragged to
DragPositions == {[x |-> 7, y |-> 7]}

\* the changes React Flow reports for the displayed nodes ns: a node is
\* removed, dragged, selected or unselected; a change names its node by id
NodeChanges(ns) ==
    {[type |-> t, id |-> ns[i].id, position |-> p, selected |-> sel] :
        t \in {"remove", "position"}, i \in 1..Len(ns), p \in DragPositions, sel \in {FALSE}}
    \cup
    {[type |-> "select", id |-> ns[i].id, position |-> p, selected |-> sel] :
        i \in 1..Len(ns), p \in DragPositions, sel \in BOOLEAN}

\* the arrays of changes of one handler call
ChangeArrays(changes) == UNION {[1..n -> changes] : n \in 1..MaxChanges}

TouchesItem(change, item) == item.id = change.id

RECURSIVE applyNodeChanges(_, _)
\* React Flow's applyNodeChanges: a new array in every case, without the
\* nodes removed, with the position of the nodes dragged and the
\* `selected` of the nodes selected or unselected
applyNodeChanges(changes, ns) ==
    IF changes = <<>> THEN ns
    ELSE LET change == Head(changes)
             applied ==
                 CASE change.type = "remove" ->
                         SelectSeq(ns, LAMBDA node : ~TouchesItem(change, node))
                   [] change.type = "position" ->
                         [i \in 1..Len(ns) |->
                             IF TouchesItem(change, ns[i])
                             THEN [ns[i] EXCEPT !.position = change.position]
                             ELSE ns[i]]
                   [] change.type = "select" ->
                         [i \in 1..Len(ns) |->
                             IF TouchesItem(change, ns[i])
                             THEN [ns[i] EXCEPT !.selected = change.selected]
                             ELSE ns[i]]
                   [] OTHER -> ns
         IN applyNodeChanges(Tail(changes), applied)

\* the changes React Flow reports for the displayed edges: an edge is
\* removed or selected
EdgeChanges(eds) ==
    {[type |-> t, id |-> eds[i].id] : t \in {"remove", "select"}, i \in 1..Len(eds)}

RECURSIVE applyEdgeChanges(_, _)
\* React Flow's applyEdgeChanges; the selection of an edge changes no field
\* kept here
applyEdgeChanges(changes, eds) ==
    IF changes = <<>> THEN eds
    ELSE LET change == Head(changes)
             applied ==
                 IF change.type = "remove"
                 THEN SelectSeq(eds, LAMBDA edge : ~TouchesItem(change, edge))
                 ELSE eds
         IN applyEdgeChanges(Tail(changes), applied)

\* onNodesChange of useNodesState:
\* setNodes(nds => applyNodeChanges(changes, nds)).  The state is a new
\* array, so React renders and "old" recreates onLayout; the nodes reach
\* the store in StoreUpdater.
onNodesChange(changes) ==
    /\ EffectsFlushed
    /\ nodes' = applyNodeChanges(changes, nodes)
    /\ nodes' # nodes => edits < MaxEdits
    /\ edits' = IF nodes' # nodes THEN edits + 1 ELSE edits
    /\ pendingEffect' = TRUE
    /\ Render(route, TRUE, dagreGraph, lastLayout, Event(<<>>))
    /\ UNCHANGED <<variant, routes, rtype, rand, lastBuild, edges, store, timers>>

\* onEdgesChange of useEdgesState:
\* setEdges(eds => applyEdgeChanges(changes, eds)), and the render for the
\* new array
onEdgesChange(changes) ==
    /\ EffectsFlushed
    /\ edges' = applyEdgeChanges(changes, edges)
    /\ edges' # edges => edits < MaxEdits
    /\ edits' = IF edges' # edges THEN edits + 1 ELSE edits
    /\ Render(route, TRUE, dagreGraph, lastLayout, Event(<<>>))
    /\ UNCHANGED <<pendingEffect, variant, routes, rtype, rand, lastBuild, nodes, store, timers>>

\* the displayed nodes the user has selected
SelectedNodes(ns) == SelectSeq(ns, LAMBDA node : node.selected)

\* the removals React Flow reports with the removal of the nodes `removed`:
\* one for each displayed edge that starts or ends at one of them
ConnectedEdgeRemovals(removed, eds) ==
    LET ids == {removed[k].id : k \in 1..Len(removed)}
        connected == SelectSeq(eds, LAMBDA edge : edge.source \in ids \/ edge.target \in ids)
    IN [k \in 1..Len(connected) |-> [type |-> "remove", id |-> connected[k].id]]

\* Backspace while a displayed node is selected (deleteKeyCode is left at
\* its default): in the keydown event React Flow calls onEdgesChange with
\* the removals of the edges of the selected nodes, when there are any, and
\* onNodesChange with the removals of the selected nodes; React renders
\* once for both state updates.  A node is selected by a select change, and
\* a direction request leaves none selected.
DeleteSelected ==
    /\ EffectsFlushed
    /\ SelectedNodes(nodes) # <<>>
    /\ LET removed == SelectedNodes(nodes)
       IN /\ edges' = applyEdgeChanges(ConnectedEdgeRemovals(removed, edges), edges)
          /\ nodes' = applyNodeChanges(
                         [k \in 1..Len(removed) |->
                             [type |-> "remove", id |-> removed[k].id,
                              position |-> removed[k].position, selected |-> FALSE]],
                         nodes)
    /\ pendingEffect' = TRUE
    /\ Render(route, TRUE, dagreGraph, lastLayout, Event(<<>>))
    /\ UNCHANGED <<edits, variant, routes, rtype, rand, lastBuild, store, timers>>

\* the effect of React Flow's StoreUpdater after a render with a new nodes
\* array: the nodes are handed to the store.  It is the commit of every
\* direction request made so far.
StoreUpdater ==
    /\ pendingEffect
    /\ store' = CommitNodes(store, nodes)
    /\ timers' = AfterCommit(timers)
    /\ pendingEffect' = FALSE
    /\ lastEvent' = Event(<<>>)
    /\ UNCHANGED <<edits, variant, routes, rtype, rand, lastBuild, route, memoDeps, layouted,
                   nodes, edges, onLayoutRoute, clickRoute, dagreGraph, lastLayout>>

\* the oldest pending setTimeout callback runs: focusNode().  The callback
\* is a task of its own, started once the task that queued it is over.
FocusTimer ==
    /\ TimerAfterCommit
    /\ timers # <<>>
    /\ store' = focusNode(store, Head(timers))
    /\ timers' = Tail(timers)
    /\ lastEvent' = Event(<<>>)
    /\ UNCHANGED <<pendingEffect, edits, variant, routes, rtype, rand, lastBuild, route,
                   memoDeps, layouted, nodes, edges, onLayoutRoute, clickRoute, dagreGraph,
                   lastLayout>>

Next ==
    \/ \E r \in RouteIds : SetRoute(r)
    \/ Rerender
    \/ \E i \in 1..Len(nodes) : handleClickNode(i)
    \/ \E dir \in PanelDirections : handleDescription(dir)
    \/ \E i \in 1..Len(nodes) : \E j \in 1..Len(nodes) : onConnect(i, j)
    \/ \E changes \in ChangeArrays(NodeChanges(nodes)) : onNodesChange(changes)
    \/ \E changes \in ChangeArrays(EdgeChanges(edges)) : onEdgesChange(changes)
    \/ DeleteSelected
    \/ StoreUpdater
    \/ FocusTimer

Spec == Init /\ [][Next]_vars

\* What runs without the user: a queued timer callback always fires, a
\* pending effect always runs, and a pending re-render is always carried out.  Clicks, direction requests and
\* route changes are up to the user and carry no fairness.
SpecLive == Spec /\ WF_vars(FocusTimer) /\ WF_vars(StoreUpdater) /\ WF_vars(Rerender)


(***************************************************************************)
(* The two functions called on their own: from the mounted component, any  *)
(* route of the tree is built and laid out in any direction, also one that *)
(* is no GraphDirection.  `layouted` holds what the latest call returned.  *)
(***************************************************************************)
UnknownDirection == "XX"

LayoutCall(r, direction) ==
    /\ \E m \in BuildAndLayout(r, direction, dagreGraph) :
          /\ layouted' = [nodes |-> m.nodes, edges |-> m.edges]
          /\ dagreGraph' = m.graph
          /\ lastLayout' = m.seen
    /\ UNCHANGED <<pendingEffect, edits, variant, routes, rtype, rand, lastBuild, route,
                   memoDeps, nodes, edges, onLayoutRoute, clickRoute, store, timers,
                   lastEvent>>

InitCalls ==
    /\ variant \in {"old", "new"}
    /\ Mounted(MixedTypes)

NextCalls ==
    \E r \in RouteIds : \E direction \in GraphDirection \cup {UnknownDirection} :
        LayoutCall(r, direction)

SpecCalls == InitCalls /\ [][NextCalls]_vars


(***************************************************************************)
(* getNodesAndEdges called on its own, before any component is mounted:    *)
(* on every small tree with every outcome of the draws among MaxColors     *)
(* colours, and on bushy trees of up to MaxNodes routes, with the draws    *)
(* among MaxBushColors colours, whose node ids have up to three            *)
(* digits: routes 2..11 and every route from 112 on are children of the    *)
(* root, routes 12, 22, ..., 102 are children of route 11, and each of     *)
(* these has the nine routes after it as children.  Route ids are in       *)
(* pre-order, so the node of route k gets id String(k) when the root is    *)
(* built.  lastBuild.pushedBy[i] is the                                    *)
(* number of the call that created the i-th object of the returned nodes   *)
(* array: the objects the call started with keep theirs.                   *)
(***************************************************************************)
BushParent(k) ==
    IF k <= 11 \/ k >= 112 THEN 1
    ELSE IF (k - 12) % 10 = 0 THEN 11
    ELSE k - ((k - 12) % 10)

Bush(n) == [r \in 1..n |-> AscSeq({k \in 2..n : BushParent(k) = r})]

Unmounted ==
    /\ edits = 0
    /\ pendingEffect = FALSE
    /\ route = 1
    /\ memoDeps = 0
    /\ onLayoutRoute = 0
    /\ clickRoute = 0
    /\ layouted = [nodes |-> <<>>, edges |-> <<>>]
    /\ nodes = <<>>
    /\ edges = <<>>
    /\ dagreGraph = EmptyGraph
    /\ store = [ nodeInternals |-> <<>>, center |-> <<>>,
                 focus |-> [ran |-> FALSE, afterCommit |-> FALSE, node |-> <<>>,
                                   threw |-> FALSE] ]
    /\ timers = <<>>
    /\ lastLayout = [ ids |-> {}, links |-> {}, direction |-> Undefined,
                      leftover |-> [nodes |-> {}, edges |-> {}], anchors |-> {},
                      modified |-> FALSE, result |-> "none" ]
    /\ lastEvent = Event(<<>>)

InitBuild ==
    /\ variant \in {"old", "new"}
    /\ \/ /\ \E p \in ParentVectors :
                routes = [r \in RouteIds |-> AscSeq({k \in 2..MaxRoutes : p[k] = r})]
          /\ rtype \in MixedTypes
          /\ rand = OneDraw
       \/ \E n \in 3..MaxNodes :
             /\ routes = Bush(n)
             /\ rtype = [r \in 1..n |-> "route"]
             /\ rand = [r \in 1..n |-> Palette[1]]
    /\ lastBuild = NoBuild
    /\ Unmounted

\* a tree of more than MaxRoutes routes
IsBushy == Len(routes) > MaxRoutes

\* the roots getNodesAndEdges is called with: any route of a small tree,
\* the root of a bushy tree
BuildRoots == IF IsBushy THEN {1} ELSE DOMAIN routes

\* a top-level call getNodesAndEdges(r), with fresh draws
Build(r) ==
    /\ lastBuild.call < MaxBuilds
    /\ \E draws \in BuildDraws(r, IF IsBushy THEN BushColors ELSE Colors) :
       LET call == lastBuild.call + 1
           kept == Len(FreshLists.nodes)
           out  == getNodesAndEdgesDrawing(r, draws)
       IN /\ rand' = draws
          /\ lastBuild' = [ root     |-> r,
                         call     |-> call,
                         nodes    |-> out.nodes,
                         edges    |-> out.edges,
                         pushedBy |-> SubSeq(lastBuild.pushedBy, 1, kept)
                                      \o [i \in 1..(Len(out.nodes) - kept) |-> call] ]
    /\ UNCHANGED <<pendingEffect, edits, variant, routes, rtype, route, memoDeps, layouted,
                   nodes, edges, onLayoutRoute, clickRoute, dagreGraph, store, timers,
                   lastLayout, lastEvent>>

NextBuild == \E r \in BuildRoots : Build(r)

SpecBuild == InitBuild /\ [][NextBuild]_vars


(***************************************************************************)
(* Properties.                                                             *)
(***************************************************************************)
IsRootKind(node) == node.type \in {"rootRoute", "input"}

\* the routes a node list shows, in order
RoutesShown(ns) == [i \in 1..Len(ns) |-> ns[i].data]

\* the routes getNodesAndEdges(r) makes nodes for, in order
RoutesBuilt(r) == RoutesShown(getNodesAndEdges(r).nodes)

IsTreeShaped(b) ==
    /\ Len(b.edges) = Len(b.nodes) - 1
    /\ {i \in 1..Len(b.nodes) : IsRootKind(b.nodes[i])} = {1}

\* C1: for every route tree, getNodesAndEdges called with only the root
\* returns |edges| = |nodes| - 1 and exactly one node of the root kind, the
\* first one; a root without children gives one node and no edge.  The
\* lists a build-and-layout call returned have the same shape.
C1_BuildIsTree ==
    /\ \A r \in RouteIds :
          LET b == getNodesAndEdges(r)
          IN /\ IsTreeShaped(b)
             /\ routes[r] = <<>> => Len(b.nodes) = 1 /\ b.edges = <<>>
    /\ IsTreeShaped(layouted)

\* a build in "old" that skipped a child that is no route and still made
\* three nodes and two edges
C1_Witness ==
    /\ variant = "old"
    /\ \E r \in RouteIds : rtype[r] # "route"
    /\ Len(layouted.nodes) = 3
    /\ Len(layouted.edges) = 2

\* C2: in every layout invocation, each edge (p -> c) of the tree passed to
\* it gets rank(c) = rank(p) + 1 in the graph the engine lays out.
C2_DepthRankMonotonic ==
    \A l \in lastLayout.links :
        dagreGraph.label[l[2]].rank = dagreGraph.label[l[1]].rank + 1

\* C3: at the start of each layout invocation the working graph holds
\* nothing of an earlier invocation, and after setNode/setEdge it holds
\* exactly the nodes and edges of the current call.
C3_WorkingGraphFresh ==
    /\ lastLayout.leftover.nodes = {}
    /\ lastLayout.leftover.edges = {}
    /\ dagreGraph.nodes = lastLayout.ids
    /\ dagreGraph.edges = lastLayout.links

AnchorsFor(direction) ==
    CASE direction = "TB" -> <<"top", "bottom">>
      [] direction = "BT" -> <<"bottom", "top">>
      [] direction = "LR" -> <<"left", "right">>
      [] direction = "RL" -> <<"right", "left">>

\* C4: after layout with direction d every node's <<targetPosition,
\* sourcePosition>> is top/bottom for TB, left/right for LR, bottom/top for
\* BT and right/left for RL.
C4_AnchorsByDirection ==
    lastLayout.direction \in GraphDirection
        => lastLayout.anchors = {AnchorsFor(lastLayout.direction)}

\* C5: a click on a node whose route is the active route calls setRoute not
\* at all and changes nothing; a click on any other node calls setRoute
\* exactly once, with that node's route.
C5_ClickSelectsOnce ==
    [][\A i \in 1..Len(nodes) :
         handleClickNode(i) =>
           IF nodes[i].data = route
           THEN /\ lastEvent'.calls = <<>>
                /\ UNCHANGED <<route, memoDeps, layouted, nodes, edges, onLayoutRoute,
                               clickRoute, dagreGraph, store, timers, lastLayout, edits,
                               pendingEffect>>
           ELSE lastEvent'.calls = <<nodes[i].data>>]_vars

\* a click has called setRoute with a route that is not the first one shown
C5_Witness ==
    /\ variant = "new"
    /\ Len(lastEvent.calls) = 1
    /\ lastEvent.calls[1] = route
    /\ route # nodes[1].data

\* C6: after a change of the active route the nodes handed to the canvas
\* eventually are those of the active route's tree, as long as the user
\* changes nothing of the displayed graph by hand; the component never
\* keeps showing the tree of an earlier route for ever.
C6_DisplayFollowsRoute == []<>(edits = 0 => RoutesShown(nodes) = RoutesBuilt(route))

\* C7: a direction request shows the tree of the route that is active at
\* the time of the request, and schedules one refocus.
C7_DirectionUsesActiveRoute ==
    [][\A dir \in PanelDirections :
         handleDescription(dir) =>
           /\ RoutesShown(nodes') = RoutesBuilt(route)
           /\ Len(timers') = Len(timers) + 1]_vars

C9_UnknownDirectionRejected ==
    lastLayout.direction \notin GraphDirection
        => lastLayout.result = "error" /\ ~lastLayout.modified

\* C10: the memoized build and layout is recomputed on a render exactly
\* when the active route's id differs from that of the previous render.
C10_MemoOnRouteId == [][lastEvent'.recomputed <=> route' # route]_vars

\* renders with an unchanged route id have left the memo of a route other
\* than the mounted one alone
C10_Witness ==
    /\ ~lastEvent.recomputed
    /\ route # 1
    /\ memoDeps = route
    /\ RoutesShown(layouted.nodes) = RoutesBuilt(route)

\* the route whose children include r
ParentRoute(r) == CHOOSE q \in DOMAIN routes : \E k \in 1..Len(routes[q]) : routes[q][k] = r

RECURSIVE DepthBelow(_, _)
\* the depth of route r in the tree rooted at `root`
DepthBelow(root, r) == IF r = root THEN 0 ELSE 1 + DepthBelow(root, ParentRoute(r))

\* the node a build made for route r
NodeOfRoute(b, r) == b.nodes[CHOOSE i \in 1..Len(b.nodes) : b.nodes[i].data = r]

\* C11: in the output of a build the root has the base colour 'blue', a
\* node at depth 1 has the palette colour drawn for it, and every node at
\* depth 2 or more has the colour of its parent's node.
C11_ColorInheritance ==
    lastBuild.call > 0 =>
        \A i \in 1..Len(lastBuild.nodes) :
            LET node  == lastBuild.nodes[i]
                depth == DepthBelow(lastBuild.root, node.data)
            IN /\ depth = 0 => node.borderColor = "blue"
               /\ depth = 1 => node.borderColor = rand[node.data] /\ node.borderColor \in FirstColors(Len(Palette))
               /\ depth >= 2 =>
                     node.borderColor = NodeOfRoute(lastBuild, ParentRoute(node.data)).borderColor

RECURSIVE PreOrder(_), PreOrderOf(_, _)
\* the routes below r that a build visits, in pre-order, r first
PreOrder(r) == <<r>> \o PreOrderOf(routes[r], 1)

\* the pre-order of the children from the i-th on, one after the other
PreOrderOf(children, i) ==
    IF i > Len(children) THEN <<>>
    ELSE IF SkipsChild(children[i]) THEN PreOrderOf(children, i + 1)
    ELSE PreOrder(children[i]) \o PreOrderOf(children, i + 1)

\* C12: in the output of a build the k-th node is the node of the k-th
\* route in pre-order (the root first) and has id String(k), so the ids
\* are pairwise distinct; every edge's target is the id of the node made
\* for a child of the route whose node has the edge's source as id.
C12_PreOrderIds ==
    lastBuild.call > 0 =>
        LET ns == lastBuild.nodes
            es == lastBuild.edges
        IN /\ RoutesShown(ns) = PreOrder(lastBuild.root)
           /\ ns[1].id = <<"1">>
           /\ \A k \in 1..Len(ns) : ns[k].id = String(k) /\ Number(ns[k].id) = k
           /\ Cardinality(IdsOf(ns)) = Len(ns)
           /\ \A e \in 1..Len(es) :
                 LET from == Number(es[e].source)
                     to   == Number(es[e].target)
                 IN /\ from \in 1..Len(ns)
                    /\ to \in 1..Len(ns)
                    /\ ns[to].data \in ChildrenOf(ns[from].data)
                    /\ ns[to].data = PreOrder(lastBuild.root)[e + 1]

\* a build of a tree whose hundredth node got the three-digit id "100"
C12_Witness ==
    /\ lastBuild.call > 0
    /\ Len(lastBuild.nodes) >= 100
    /\ lastBuild.nodes[100].id = <<"1", "0", "0">>
    /\ lastBuild.nodes[100].data = 100

\* C13: every edge a build returns has a source and a target that are ids
\* of nodes returned by the same call, also when "old" skips children that
\* are no routes; so each edge joins two nodes the layout has set.
C13_NoDanglingEdge ==
    lastBuild.call > 0 =>
        \A e \in 1..Len(lastBuild.edges) :
            /\ lastBuild.edges[e].source \in IdsOf(lastBuild.nodes)
            /\ lastBuild.edges[e].target \in IdsOf(lastBuild.nodes)
            /\ lastBuild.edges[e].source # lastBuild.edges[e].target

\* a build in "old" that skipped the last child of a route it visited and
\* made an edge to an earlier child
C13_Witness ==
    /\ lastBuild.call > 0
    /\ variant = "old"
    /\ Len(lastBuild.edges) >= 1
    /\ \E i \in 1..Len(lastBuild.nodes) :
          LET children == routes[lastBuild.nodes[i].data]
          IN /\ Len(children) >= 2
             /\ rtype[children[Len(children)]] # "route"
             /\ rtype[children[1]] = "route"

\* the node every build makes first is among the displayed nodes: the user
\* has not removed it by hand
RootNodeKept == \E i \in 1..Len(nodes) : nodes[i].id = String(1)

C15_DisplayedIsSnapshot ==
    [][edges' # edges => \E dir \in PanelDirections : handleDescription(dir)]_vars

\* C16: a top-level build leaves the route tree as it was, and the lists it
\* returns hold the nodes and edges of its own tree only, every node object
\* created by this call and none by an earlier one.
C16_BuildFromScratch ==
    [][\A r \in BuildRoots :
         Build(r) =>
           /\ routes' = routes
           /\ rtype' = rtype
           /\ RoutesShown(lastBuild'.nodes) = PreOrder(r)
           /\ Len(lastBuild'.edges) = Len(lastBuild'.nodes) - 1
           /\ Len(lastBuild'.pushedBy) = Len(lastBuild'.nodes)
           /\ \A i \in 1..Len(lastBuild'.pushedBy) :
                 lastBuild'.pushedBy[i] = lastBuild'.call]_vars

\* a second build in a row, of a tree of three routes or more
C16_Witness ==
    /\ lastBuild.call = 2
    /\ Len(lastBuild.nodes) >= 3
    /\ lastBuild.pushedBy[1] = 2

\* C17: any two distinct edges of one build have different ids.
C17_EdgeIdsUnique ==
    lastBuild.call > 0 =>
        \A e \in 1..Len(lastBuild.edges) : \A f \in 1..Len(lastBuild.edges) :
            lastBuild.edges[e].id = lastBuild.edges[f].id => e = f
=============================================================================
